---------------------------- MODULE Spec2Model ----------------------------
(***************************************************************************)
(* State-machine model of stellargraph/mapper/sequences.py: the Keras      *)
(* Sequence adapters NodeSequence, LinkSequence, OnDemandLinkSequence,     *)
(* the full-batch packers, GraphSequence and CorruptedNodeSequence.        *)
(*                                                                         *)
(* Python values are encoded as follows.  An optional value (None or an    *)
(* array) is a record [present, val].  A constructor argument that may or  *)
(* may not be iterable is a record [iterable, val].  Lists and 1-D arrays  *)
(* are sequences (1-based here, 0-based in the source).  An exception      *)
(* raised by a call is the "outcome" field of the call's result.           *)
(***************************************************************************)
EXTENDS Integers, Sequences, FiniteSets, TLC

VARIABLES
    seq,      \* the NodeSequence / LinkSequence instances, by instance number
    odl,      \* the OnDemandLinkSequence instance
    walker,   \* the UnsupervisedSampler collaborator: run() calls so far, last result
    gs,       \* the GraphSequence instance
    fb,       \* the full-batch packer instance
    cns,      \* the CorruptedNodeSequence instance
    ret       \* outcome of the most recent call (constructor, len, getitem, on_epoch_end)

vars == <<seq, odl, walker, gs, fb, cns, ret>>

----------------------------------------------------------------------------
(* Bounds of the model *)

MaxN == 3           \* largest identifier list
MaxBatchSize == 3   \* largest batch_size
MaxSeed == 2        \* seeds are 1..MaxSeed
MaxEpochs == 2      \* on_epoch_end() calls per instance
MaxBatches == 2     \* batches one run of the walk sampler returns
MaxGraphs == 3      \* graphs given to a GraphSequence
MaxNodes == 3       \* nodes of a graph
MaxRows == 4        \* feature rows in one batch that CorruptedNodeSequence shuffles

Insts == {1, 2}
Seeds == 1..MaxSeed
BatchSizes == 1..MaxBatchSize

----------------------------------------------------------------------------
(* Generic helpers *)

Min(a, b) == IF a <= b THEN a ELSE b

Range(s) == {s[k] : k \in 1..Len(s)}

\* list(range(n)), kept 0-based as in the source
RangeList(n) == [k \in 1..n |-> k - 1]

\* Python slice x[start:end] of a list (0-based, end exclusive, clipped)
Slice(x, start, end) ==
    IF start >= Len(x) THEN << >>
    ELSE SubSeq(x, start + 1, Min(end, Len(x)))

\* int(np.ceil(a / b)) for a >= 0, b >= 1
CeilDiv(a, b) == IF a % b = 0 THEN a \div b ELSE (a \div b) + 1

None == [present |-> FALSE, val |-> << >>]
Some(v) == [present |-> TRUE, val |-> v]

\* core.utils.is_real_iterable on the encoded argument
is_real_iterable(x) == x.iterable

\* the result of a call that made no call of its own and returned nothing; calls
\* lists the sampling-function calls made, inner is what a wrapped source returned
NoRet == [op |-> "none", inst |-> 0, batch_num |-> 0, outcome |-> "none",
          length |-> 0, calls |-> << >>, feats |-> << >>, targets |-> None,
          inner |-> << >>]

----------------------------------------------------------------------------
(* The seeded generator returned by random_state(seed): a linear            *)
(* congruential generator owned by the instance.                            *)

random_state(seed) == seed

RngNext(s) == (5 * s + 3) % 16

\* random.Random._randbelow(n): a value in 0..n-1 and the advanced generator
randbelow(n, s) == [value |-> s % n, rs |-> RngNext(s)]

\* random.Random.shuffle(x): for i in reversed(range(1, len(x))):
\*     j = randbelow(i + 1); x[i], x[j] = x[j], x[i]
\* (here i is the 1-based position, so j = randbelow(i) + 1)
RECURSIVE ShuffleFrom(_, _, _)
ShuffleFrom(x, i, s) ==
    IF i < 2 THEN [x |-> x, rs |-> s]
    ELSE LET d == randbelow(i, s)
             j == d.value + 1
             y == [x EXCEPT ![i] = x[j], ![j] = x[i]]
         IN ShuffleFrom(y, i - 1, d.rs)

rs_shuffle(x, s) == ShuffleFrom(x, Len(x), s)

\* every ordering of 0..n-1: what an unseeded, process-wide generator can give
RECURSIVE PermsOf(_)
PermsOf(S) ==
    IF S = {} THEN {<< >>}
    ELSE UNION {{<<e>> \o p : p \in PermsOf(S \ {e})} : e \in S}

\* The sampling function injected by the caller is a black box that maps (head
\* ids, batch number) to a list of per-hop feature tensors.  The argument given
\* for it is [callable, hops]: whether it can be called at all, and the number of
\* rows (of width 2) per head id it returns for each hop.
NotCallable == [callable |-> FALSE, hops |-> << >>]

Sampler(hops) == [callable |-> TRUE, hops |-> hops]

HopSizes == <<1, 2>>

FeatureRow(id, h, j) == <<id, 10 * h + j>>

sample_function(sf, head_ids, batch_num) ==
    [h \in 1..Len(sf.hops) |->
        [b \in 1..Len(head_ids) |->
            [j \in 1..sf.hops[h] |-> FeatureRow(head_ids[b], h, j)]]]

----------------------------------------------------------------------------
(* NodeSequence and LinkSequence *)

\* An instance: the fields the source sets (sample_function for _sample_function
\* or _sample_features, ids, targets, data_size, shuffle, batch_size, rs for _rs,
\* indices) and three history fields of the model: args (the
\* constructor arguments as given), epochs (on_epoch_end() calls made by the caller)
\* and sampled (whether the instance ever called its sampling function).
NoArgs == [sample_function |-> NotCallable, batch_size |-> 1,
           ids |-> [iterable |-> FALSE, val |-> << >>],
           targets |-> [present |-> FALSE, iterable |-> FALSE, val |-> << >>],
           shuffle |-> FALSE, seed |-> 0]

NoSeq == [status |-> "absent", kind |-> "none", sample_function |-> NotCallable,
          ids |-> << >>, targets |-> None,
          data_size |-> 0, shuffle |-> FALSE, batch_size |-> 1, rs |-> 0,
          indices |-> << >>, args |-> NoArgs, epochs |-> 0, sampled |-> FALSE]

\* a constructor that raised: no object exists, only the record of the attempt
FailedSeq(kind, err, args) == [NoSeq EXCEPT !.status = err, !.kind = kind, !.args = args]

ArgsOf(sf, batch_size, ids, targets, shuffle, seed) ==
    [sample_function |-> sf, batch_size |-> batch_size, ids |-> ids, targets |-> targets,
     shuffle |-> shuffle, seed |-> seed]

\* the identifier lists and target arrays handed to the constructors
NodeIds(n) == [k \in 1..n |-> 100 + k]
LinkIds(n) == [k \in 1..n |-> <<100 + k, 200 + k>>]
TargetsOf(m) == [k \in 1..m |-> 300 + k]

IdArgs(kind) ==
    {[iterable |-> FALSE, val |-> << >>]}
        \cup {[iterable |-> TRUE,
               val |-> IF kind = "NodeSequence" THEN NodeIds(n) ELSE LinkIds(n)]
              : n \in 0..MaxN}

TargetArgs ==
    {[present |-> FALSE, iterable |-> FALSE, val |-> << >>],
     [present |-> TRUE, iterable |-> FALSE, val |-> << >>]}
        \cup {[present |-> TRUE, iterable |-> TRUE, val |-> TargetsOf(m)] : m \in 0..MaxN}

\* on_epoch_end shuffling with the process-wide generator instead of self._rs
NodeSequence_shuffled_global(self) ==
    LET indices == RangeList(self.data_size)
    IN IF self.shuffle
       THEN {[indices |-> p, rs |-> self.rs] : p \in PermsOf(Range(indices))}
       ELSE {[indices |-> indices, rs |-> self.rs]}

\* NodeSequence.on_epoch_end: the possible (indices, generator) pairs after it
NodeSequence_shuffled(self) ==
    LET indices == RangeList(self.data_size)
    IN IF self.shuffle
       THEN {[indices |-> rs_shuffle(indices, self.rs).x,
              rs |-> rs_shuffle(indices, self.rs).rs]}
       ELSE {[indices |-> indices, rs |-> self.rs]}

\* LinkSequence.on_epoch_end
LinkSequence_shuffled(self) ==
    LET indices == RangeList(self.data_size)
    IN IF self.shuffle
       THEN {[indices |-> rs_shuffle(indices, self.rs).x,
              rs |-> rs_shuffle(indices, self.rs).rs]}
       ELSE {[indices |-> indices, rs |-> self.rs]}

Seq_shuffled(self) ==
    IF self.kind = "NodeSequence" THEN NodeSequence_shuffled(self)
    ELSE LinkSequence_shuffled(self)

\* __init__ without the comparison of len(ids) and len(targets)
NodeSequence_init_outcome_unchecked(sf, ids, targets) ==
    IF ~is_real_iterable(ids) THEN "TypeError"
    ELSE IF targets.present /\ ~is_real_iterable(targets) THEN "TypeError"
    ELSE IF ~sf.callable THEN "TypeError"
    ELSE "ok"

\* the checks of NodeSequence.__init__, in source order: the exception raised, or "ok"
NodeSequence_init_outcome(sf, ids, targets) ==
    IF ~is_real_iterable(ids) THEN "TypeError"
    ELSE IF targets.present /\ ~is_real_iterable(targets) THEN "TypeError"
    ELSE IF targets.present /\ Len(ids.val) # Len(targets.val) THEN "ValueError"
    ELSE IF ~sf.callable THEN "TypeError"
    ELSE "ok"

\* the checks of LinkSequence.__init__ (the length check is made twice)
LinkSequence_init_outcome(sf, ids, targets) ==
    IF ~is_real_iterable(ids) THEN "TypeError"
    ELSE IF targets.present /\ ~is_real_iterable(targets) THEN "TypeError"
    ELSE IF targets.present /\ Len(ids.val) # Len(targets.val) THEN "ValueError"
    ELSE IF targets.present /\ Len(ids.val) # Len(targets.val) THEN "ValueError"
    ELSE IF ~sf.callable THEN "TypeError"
    ELSE "ok"

Seq_init_fields(kind, sf, batch_size, ids, targets, shuffle, seed) ==
    [NoSeq EXCEPT !.status = "ok", !.kind = kind, !.sample_function = sf,
                  !.targets = IF targets.present THEN Some(targets.val) ELSE None,
                  !.ids = ids.val, !.data_size = Len(ids.val),
                  !.shuffle = shuffle, !.batch_size = batch_size,
                  !.rs = random_state(seed),
                  !.args = ArgsOf(sf, batch_size, ids, targets, shuffle, seed)]

\* NodeSequence.__init__ on instance number s
NodeSequence_init(s, sf, batch_size, ids, targets, shuffle, seed) ==
    /\ seq[s].status = "absent"
    /\ LET outcome == NodeSequence_init_outcome(sf, ids, targets)
           made == Seq_init_fields("NodeSequence", sf, batch_size, ids, targets,
                                   shuffle, seed)
       IN /\ IF outcome = "ok"
             THEN \E sh \in NodeSequence_shuffled(made) :
                    seq' = [seq EXCEPT ![s] = [made EXCEPT !.indices = sh.indices,
                                                           !.rs = sh.rs]]
             ELSE seq' = [seq EXCEPT ![s] = FailedSeq("NodeSequence", outcome,
                               ArgsOf(sf, batch_size, ids, targets, shuffle, seed))]
          /\ ret' = [NoRet EXCEPT !.op = "init", !.inst = s, !.outcome = outcome]
    /\ UNCHANGED <<odl, walker, gs, fb, cns>>

\* LinkSequence.__init__ on instance number s
LinkSequence_init(s, sf, batch_size, ids, targets, shuffle, seed) ==
    /\ seq[s].status = "absent"
    /\ LET outcome == LinkSequence_init_outcome(sf, ids, targets)
           made == Seq_init_fields("LinkSequence", sf, batch_size, ids, targets,
                                   shuffle, seed)
       IN /\ IF outcome = "ok"
             THEN \E sh \in LinkSequence_shuffled(made) :
                    seq' = [seq EXCEPT ![s] = [made EXCEPT !.indices = sh.indices,
                                                           !.rs = sh.rs]]
             ELSE seq' = [seq EXCEPT ![s] = FailedSeq("LinkSequence", outcome,
                               ArgsOf(sf, batch_size, ids, targets, shuffle, seed))]
          /\ ret' = [NoRet EXCEPT !.op = "init", !.inst = s, !.outcome = outcome]
    /\ UNCHANGED <<odl, walker, gs, fb, cns>>

\* __len__ rounding down instead of up
NodeSequence_len_floor(self) == self.data_size \div self.batch_size

\* NodeSequence.__len__
NodeSequence_len(self) == CeilDiv(self.data_size, self.batch_size)

\* LinkSequence.__len__
LinkSequence_len(self) == CeilDiv(self.data_size, self.batch_size)

Seq_len(self) ==
    IF self.kind = "NodeSequence" THEN NodeSequence_len(self) ELSE LinkSequence_len(self)

\* the first rows of the target array, whatever the batch's indices are
TakeIndices_leading(arr, batch_indices) ==
    [k \in 1..Len(batch_indices) |-> arr[k]]

\* self.targets[batch_indices]: fancy indexing of the target array
TakeIndices(arr, batch_indices) ==
    [k \in 1..Len(batch_indices) |-> arr[batch_indices[k] + 1]]

\* NodeSequence.__getitem__(batch_num) as a function of the instance: the
\* exception or the returned (batch_feats, batch_targets), with the calls made
NodeSequence_getitem(self, batch_num) ==
    LET start_idx == self.batch_size * batch_num
        end_idx == start_idx + self.batch_size
        batch_indices == Slice(self.indices, start_idx, end_idx)
        head_ids == [k \in 1..Len(batch_indices) |-> self.ids[batch_indices[k] + 1]]
        batch_targets == IF self.targets.present
                         THEN Some(TakeIndices(self.targets.val, batch_indices))
                         ELSE None
    IN IF start_idx >= self.data_size
       THEN [NoRet EXCEPT !.op = "getitem", !.batch_num = batch_num,
                          !.outcome = "IndexError"]
       ELSE [NoRet EXCEPT !.op = "getitem", !.batch_num = batch_num, !.outcome = "ok",
                          !.calls = <<[ids |-> head_ids, batch_num |-> batch_num]>>,
                          !.feats = sample_function(self.sample_function, head_ids, batch_num),
                          !.targets = batch_targets]

\* LinkSequence.__getitem__(batch_num)
LinkSequence_getitem(self, batch_num) ==
    LET start_idx == self.batch_size * batch_num
        end_idx == start_idx + self.batch_size
        batch_indices == Slice(self.indices, start_idx, end_idx)
        head_ids == [k \in 1..Len(batch_indices) |-> self.ids[batch_indices[k] + 1]]
        batch_targets == IF self.targets.present
                         THEN Some(TakeIndices(self.targets.val, batch_indices))
                         ELSE None
    IN IF start_idx >= self.data_size
       THEN [NoRet EXCEPT !.op = "getitem", !.batch_num = batch_num,
                          !.outcome = "IndexError"]
       ELSE [NoRet EXCEPT !.op = "getitem", !.batch_num = batch_num, !.outcome = "ok",
                          !.calls = <<[ids |-> head_ids, batch_num |-> batch_num]>>,
                          !.feats = sample_function(self.sample_function, head_ids, batch_num),
                          !.targets = batch_targets]

Seq_getitem(self, batch_num) ==
    IF self.kind = "NodeSequence" THEN NodeSequence_getitem(self, batch_num)
    ELSE LinkSequence_getitem(self, batch_num)

\* a caller asks instance s for batch batch_num
SeqGetItem(s, batch_num) ==
    /\ seq[s].status = "ok"
    /\ LET r == Seq_getitem(seq[s], batch_num)
       IN /\ ret' = [r EXCEPT !.inst = s, !.length = Seq_len(seq[s])]
          /\ seq' = [seq EXCEPT ![s].sampled = seq[s].sampled \/ r.calls # << >>]
    /\ UNCHANGED <<odl, walker, gs, fb, cns>>

\* a caller (the training loop) signals the end of an epoch to instance s
SeqOnEpochEnd(s) ==
    /\ seq[s].status = "ok"
    /\ seq[s].epochs < MaxEpochs
    /\ \E sh \in Seq_shuffled(seq[s]) :
         seq' = [seq EXCEPT ![s].indices = sh.indices, ![s].rs = sh.rs,
                            ![s].epochs = seq[s].epochs + 1]
    /\ ret' = [NoRet EXCEPT !.op = "on_epoch_end", !.inst = s, !.outcome = "ok"]
    /\ UNCHANGED <<odl, walker, gs, fb, cns>>

----------------------------------------------------------------------------
(* OnDemandLinkSequence and its walk sampler *)

\* the sampler: runs counts its run() calls, last is what the latest one returned
NoWalker == [runs |-> 0, last |-> << >>]

\* UnsupervisedSampler.run(batch_size), as run number r returning nb batches: a
\* list of (identifier list, target array) pairs that differs from run to run
walker_run(r, nb, batch_size) ==
    [i \in 1..nb |->
        [ids |-> [k \in 1..batch_size |-> <<r, i - 1, k>>],
         targets |-> [k \in 1..batch_size |-> k % 2]]]

\* sum(len(batch[0]) for batch in self._batches)
RECURSIVE SumIdLens(_)
SumIdLens(batches) ==
    IF batches = << >> THEN 0
    ELSE Len(Head(batches).ids) + SumIdLens(Tail(batches))

\* An instance: sample_function (for _sample_features), batch_size, shuffle,
\* batches (for _batches), length, data_size, and the history field epochs
\* (on_epoch_end() calls made by the caller)
NoOdl == [status |-> "absent", sample_function |-> NotCallable, batch_size |-> 1, shuffle |-> FALSE, batches |-> << >>,
          length |-> 0, data_size |-> 0, epochs |-> 0]

\* OnDemandLinkSequence._create_batches: the batches and the sampler afterwards
OnDemandLinkSequence_create_batches(self, w, nb) ==
    LET made == walker_run(w.runs + 1, nb, self.batch_size)
    IN [batches |-> made, walker |-> [runs |-> w.runs + 1, last |-> made]]

\* OnDemandLinkSequence.__init__; is_sampler: walker is an UnsupervisedSampler;
\* nb: the number of batches the sampler returns when it is run
OnDemandLinkSequence_init(sf, is_sampler, batch_size, shuffle, nb) ==
    /\ odl.status = "absent"
    /\ IF ~sf.callable \/ ~is_sampler
       THEN /\ odl' = [NoOdl EXCEPT !.status = "TypeError"]
            /\ walker' = walker
            /\ ret' = [NoRet EXCEPT !.op = "init", !.outcome = "TypeError"]
       ELSE LET self == [NoOdl EXCEPT !.status = "ok", !.sample_function = sf,
                                      !.batch_size = batch_size, !.shuffle = shuffle]
                cb == OnDemandLinkSequence_create_batches(self, walker, nb)
            IN /\ odl' = [self EXCEPT !.batches = cb.batches,
                                      !.length = Len(cb.batches),
                                      !.data_size = SumIdLens(cb.batches)]
               /\ walker' = cb.walker
               /\ ret' = [NoRet EXCEPT !.op = "init", !.outcome = "ok"]
    /\ UNCHANGED <<seq, gs, fb, cns>>

\* OnDemandLinkSequence.__len__
OnDemandLinkSequence_len(self) == self.length

\* OnDemandLinkSequence.__getitem__(batch_num) as a function of the instance;
\* self._batches[batch_num] raises IndexError itself when the list is shorter
OnDemandLinkSequence_getitem(self, batch_num) ==
    IF batch_num >= OnDemandLinkSequence_len(self)
    THEN [NoRet EXCEPT !.op = "getitem", !.batch_num = batch_num,
                       !.outcome = "IndexError"]
    ELSE IF batch_num >= Len(self.batches)
    THEN [NoRet EXCEPT !.op = "getitem", !.batch_num = batch_num,
                       !.outcome = "IndexError"]
    ELSE LET head_ids == self.batches[batch_num + 1].ids
             batch_targets == self.batches[batch_num + 1].targets
         IN [NoRet EXCEPT !.op = "getitem", !.batch_num = batch_num, !.outcome = "ok",
                          !.calls = <<[ids |-> head_ids, batch_num |-> batch_num]>>,
                          !.feats = sample_function(self.sample_function, head_ids, batch_num),
                          !.targets = Some(batch_targets)]

\* a caller asks for batch batch_num
OdlGetItem(batch_num) ==
    /\ odl.status = "ok"
    /\ ret' = [OnDemandLinkSequence_getitem(odl, batch_num)
                  EXCEPT !.length = OnDemandLinkSequence_len(odl)]
    /\ UNCHANGED <<seq, odl, walker, gs, fb, cns>>

\* on_epoch_end running the sampler whatever the shuffle flag says
OnDemandLinkSequence_on_epoch_end_always(nb) ==
    /\ odl.status = "ok"
    /\ odl.epochs < MaxEpochs
    /\ LET cb == OnDemandLinkSequence_create_batches(odl, walker, nb)
       IN /\ odl' = [odl EXCEPT !.batches = cb.batches, !.epochs = odl.epochs + 1]
          /\ walker' = cb.walker
    /\ ret' = [NoRet EXCEPT !.op = "on_epoch_end", !.outcome = "ok"]
    /\ UNCHANGED <<seq, gs, fb, cns>>

\* OnDemandLinkSequence.on_epoch_end; nb: the number of batches the sampler
\* returns if it is run
OnDemandLinkSequence_on_epoch_end(nb) ==
    /\ odl.status = "ok"
    /\ odl.epochs < MaxEpochs
    /\ IF odl.shuffle
       THEN LET cb == OnDemandLinkSequence_create_batches(odl, walker, nb)
            IN /\ odl' = [odl EXCEPT !.batches = cb.batches, !.epochs = odl.epochs + 1]
               /\ walker' = cb.walker
       ELSE /\ odl' = [odl EXCEPT !.epochs = odl.epochs + 1]
            /\ walker' = walker
    /\ ret' = [NoRet EXCEPT !.op = "on_epoch_end", !.outcome = "ok"]
    /\ UNCHANGED <<seq, gs, fb, cns>>

----------------------------------------------------------------------------
(* GraphSequence and its collaborators *)

\* A graph is [id, n]: id tells the graphs of a list apart (its position in the
\* list given to the constructor), n is number_of_nodes().  The graph collaborator
\* is a path 1 - 2 - ... - n whose node k has the feature row <<10 * id + k, 1>>.
number_of_nodes(graph) == graph.n

node_features(graph) == [k \in 1..graph.n |-> <<10 * graph.id + k, 1>>]

\* A scipy sparse matrix: its shape (square, shape x shape) and its stored
\* entries <<row, column, value>>, all with a value other than 0
PathAdjacency(n) ==
    [shape |-> n,
     entries |-> {<<r, c, 1>> : <<r, c>> \in
                     {<<a, b>> \in (1..n) \X (1..n) : a - b = 1 \/ b - a = 1}}]

to_adjacency_matrix(graph) == PathAdjacency(graph.n)

\* row sum of a sparse matrix (the degree of node r)
RECURSIVE SumValues(_)
SumValues(es) ==
    IF es = {} THEN 0
    ELSE LET e == CHOOSE x \in es : TRUE IN e[3] + SumValues(es \ {e})

Degree(adj, r) == SumValues({e \in adj.entries : e[1] = r})

\* core.utils.normalize_adj: the entry v at (r, c) becomes v / sqrt(d_r * d_c),
\* written here as the number 100 * v + 10 * d_r + d_c
normalize_adj(adj) ==
    [shape |-> adj.shape,
     entries |-> {<<e[1], e[2], 100 * e[3] + 10 * Degree(adj, e[1]) + Degree(adj, e[2])>>
                     : e \in adj.entries}]

\* scipy sparse resize((m, m)), in place: entries outside the new shape are dropped
sparse_resize(adj, m) ==
    [shape |-> m, entries |-> {e \in adj.entries : e[1] <= m /\ e[2] <= m}]

\* scipy sparse toarray(): the dense shape x shape matrix
sparse_toarray(adj) ==
    [r \in 1..adj.shape |->
        [c \in 1..adj.shape |->
            IF \E e \in adj.entries : e[1] = r /\ e[2] = c
            THEN (CHOOSE e \in adj.entries : e[1] = r /\ e[2] = c)[3]
            ELSE 0]]

\* np.pad(x, pad_width=((0, extra), (0, 0))): extra zero rows after the rows of x
pad_rows(x, extra) == x \o [k \in 1..extra |-> <<0, 0>>]

\* max(...) of a non-empty list of numbers
RECURSIVE MaxOf(_)
MaxOf(xs) ==
    IF Len(xs) = 1 THEN xs[1]
    ELSE LET m == MaxOf(Tail(xs)) IN IF xs[1] >= m THEN xs[1] ELSE m

\* An instance: graphs, targets, batch_size, normalize (for normalize_adj, the
\* flag) and adjs (for normalized_adjs), and the history field given (the graph
\* list as the constructor received it)
NoGs == [status |-> "absent", graphs |-> << >>, targets |-> None, batch_size |-> 1,
         normalize |-> FALSE, adjs |-> << >>, given |-> << >>]

\* the graph lists given to the constructor: node counts in non-decreasing order
\* (the constructor shuffles the list before anything is served)
GraphLists ==
    UNION {{[k \in 1..len |-> [id |-> k, n |-> ns[k]]] :
              ns \in {x \in [1..len -> 1..MaxNodes] :
                         \A k \in 1..(len - 1) : x[k] <= x[k + 1]}}
           : len \in 0..MaxGraphs}

\* the target the caller supplies for the graph with the given id
GraphTarget(id) == 400 + id

\* x[indexes] for an array x and a list of 0-based positions
Reorder(x, indexes) == [k \in 1..Len(indexes) |-> x[indexes[k] + 1]]

\* on_epoch_end leaving the cached adjacency matrices in their old order
GraphSequence_reordered_graphs_only(self, indexes) ==
    [self EXCEPT !.graphs = Reorder(self.graphs, indexes),
                 !.targets = IF self.targets.present
                             THEN Some(Reorder(self.targets.val, indexes))
                             ELSE None]

\* GraphSequence.on_epoch_end once indexes is shuffled: the instance afterwards
GraphSequence_reordered(self, indexes) ==
    [self EXCEPT !.graphs = Reorder(self.graphs, indexes),
                 !.adjs = Reorder(self.adjs, indexes),
                 !.targets = IF self.targets.present
                             THEN Some(Reorder(self.targets.val, indexes))
                             ELSE None]

\* random.shuffle(indexes) with the unseeded process-wide generator
ShuffledIndexes(n) == PermsOf(Range(RangeList(n)))

\* GraphSequence.__init__; targets_len: the length of the target array given
GraphSequence_init(graphs, targets_present, targets_len, normalize, batch_size) ==
    /\ gs.status = "absent"
    /\ IF targets_present /\ Len(graphs) # targets_len
       THEN /\ gs' = [NoGs EXCEPT !.status = "ValueError"]
            /\ ret' = [NoRet EXCEPT !.op = "init", !.outcome = "ValueError"]
       ELSE IF ~normalize
       THEN \* the raw adjacencies are stored as normalize_adjs; reading
            \* self.normalized_adjs then raises
            /\ gs' = [NoGs EXCEPT !.status = "AttributeError", !.given = graphs,
                                  !.normalize = normalize]
            /\ ret' = [NoRet EXCEPT !.op = "init", !.outcome = "AttributeError"]
       ELSE LET self ==
                  [NoGs EXCEPT
                     !.status = "ok", !.graphs = graphs, !.given = graphs,
                     !.normalize = normalize,
                     !.batch_size = batch_size,
                     !.targets = IF targets_present
                                 THEN Some([k \in 1..Len(graphs) |->
                                               GraphTarget(graphs[k].id)])
                                 ELSE None,
                     !.adjs = [k \in 1..Len(graphs) |->
                                 normalize_adj(to_adjacency_matrix(graphs[k]))]]
            IN /\ \E indexes \in ShuffledIndexes(Len(graphs)) :
                    gs' = GraphSequence_reordered(self, indexes)
               /\ ret' = [NoRet EXCEPT !.op = "init", !.outcome = "ok"]
    /\ UNCHANGED <<seq, odl, walker, fb, cns>>

\* GraphSequence.__len__
GraphSequence_len(self) == CeilDiv(Len(self.graphs), self.batch_size)

\* a mask that marks every position, padding included, as a real node
GraphSequence_masks_all_true(graphs, max_nodes) ==
    [g \in 1..Len(graphs) |-> [k \in 1..max_nodes |-> TRUE]]

\* the masks of GraphSequence.__getitem__: row g is True at the first
\* number_of_nodes() positions
GraphSequence_masks(graphs, max_nodes) ==
    [g \in 1..Len(graphs) |->
        [k \in 1..max_nodes |-> k <= number_of_nodes(graphs[g])]]

\* GraphSequence.__getitem__(index): the result of the call and the cached
\* adjacency matrices afterwards (those of the batch are resized in place)
GraphSequence_getitem(self, index) ==
    LET batch_start == index * self.batch_size
        batch_end == (index + 1) * self.batch_size
        graphs == Slice(self.graphs, batch_start, batch_end)
    IN IF graphs = << >>
       THEN \* max() of an empty list
            [ret |-> [NoRet EXCEPT !.op = "getitem", !.batch_num = index,
                                   !.outcome = "ValueError"],
             adjs |-> self.adjs]
       ELSE LET max_nodes == MaxOf([g \in 1..Len(graphs) |-> number_of_nodes(graphs[g])])
                graph_targets == IF self.targets.present
                                 THEN Some(Slice(self.targets.val, batch_start, batch_end))
                                 ELSE None
                features == [g \in 1..Len(graphs) |->
                               pad_rows(node_features(graphs[g]),
                                        max_nodes - number_of_nodes(graphs[g]))]
                resized == [k \in 1..Len(self.adjs) |->
                              IF k > batch_start /\ k <= batch_end
                              THEN sparse_resize(self.adjs[k], max_nodes)
                              ELSE self.adjs[k]]
                adj_graphs == [g \in 1..Len(graphs) |->
                                 sparse_toarray(resized[batch_start + g])]
                masks == GraphSequence_masks(graphs, max_nodes)
            IN [ret |-> [NoRet EXCEPT !.op = "getitem", !.batch_num = index,
                                      !.outcome = "ok",
                                      !.feats = <<features, masks, adj_graphs>>,
                                      !.targets = graph_targets],
                adjs |-> resized]

\* a caller asks for batch index
GsGetItem(index) ==
    /\ gs.status = "ok"
    /\ LET r == GraphSequence_getitem(gs, index)
       IN /\ ret' = [r.ret EXCEPT !.length = GraphSequence_len(gs)]
          /\ gs' = [gs EXCEPT !.adjs = r.adjs]
    /\ UNCHANGED <<seq, odl, walker, fb, cns>>

\* GraphSequence.on_epoch_end
GraphSequence_on_epoch_end ==
    /\ gs.status = "ok"
    /\ \E indexes \in ShuffledIndexes(Len(gs.graphs)) :
         gs' = GraphSequence_reordered(gs, indexes)
    /\ ret' = [NoRet EXCEPT !.op = "on_epoch_end", !.outcome = "ok"]
    /\ UNCHANGED <<seq, odl, walker, fb, cns>>

----------------------------------------------------------------------------
(* FullBatchSequence, SparseFullBatchSequence, RelationalFullBatchNodeSequence *)

\* _full_batch_array_and_reshape: the array with a leading dimension of size 1
full_batch_array_and_reshape(array) == <<array>>

\* the stored entries of a sparse matrix in coordinate (COO) order, row-major
RECURSIVE CooEntries(_)
CooEntries(es) ==
    IF es = {} THEN << >>
    ELSE LET first == CHOOSE e \in es :
                        \A f \in es : e[1] < f[1] \/ (e[1] = f[1] /\ e[2] <= f[2])
         IN <<first>> \o CooEntries(es \ {first})

\* np.expand_dims(np.hstack((A.row[:, None], A.col[:, None])), 0): 0-based pairs
coo_indices(adj) ==
    <<[k \in 1..Cardinality(adj.entries) |->
          <<CooEntries(adj.entries)[k][1] - 1, CooEntries(adj.entries)[k][2] - 1>>]>>

\* np.expand_dims(A.data, 0)
coo_values(adj) ==
    <<[k \in 1..Cardinality(adj.entries) |-> CooEntries(adj.entries)[k][3]]>>

\* An instance: kind (the class), use_sparse, features, target_indices, inputs
\* and targets
NoFb == [status |-> "absent", kind |-> "none", use_sparse |-> FALSE, features |-> << >>,
         target_indices |-> << >>, inputs |-> << >>, targets |-> None]

\* the arguments: a feature matrix of n rows, the adjacency of a path on n nodes
\* given as a scipy sparse matrix, a numpy array or something else, and optional
\* indices and targets
FbFeatures(n) == [k \in 1..n |-> <<500 + k, k % 2>>]

FbIndices(m) == [present |-> TRUE, val |-> [k \in 1..m |-> k - 1]]

FbTargets(m) == [present |-> TRUE, val |-> [k \in 1..m |-> 600 + k]]

\* the check all three constructors start with; len(None) raises TypeError
FullBatch_length_check(targets, indices) ==
    IF ~targets.present THEN "ok"
    ELSE IF ~indices.present THEN "TypeError"
    ELSE IF Len(indices.val) # Len(targets.val) THEN "ValueError"
    ELSE "ok"

FullBatch_targets(targets) ==
    IF targets.present THEN Some(full_batch_array_and_reshape(targets.val)) ELSE None

\* FullBatchSequence.__init__; A_form tells what kind of object A is
FullBatchSequence_init(n, A_form, targets, indices) ==
    /\ fb.status = "absent"
    /\ LET outcome == IF FullBatch_length_check(targets, indices) # "ok"
                      THEN FullBatch_length_check(targets, indices)
                      ELSE IF A_form \in {"sparse", "dense"} THEN "ok"
                      ELSE "TypeError"
           A_dense == full_batch_array_and_reshape(sparse_toarray(PathAdjacency(n)))
           features == full_batch_array_and_reshape(FbFeatures(n))
           target_indices == full_batch_array_and_reshape(indices)
       IN /\ fb' = IF outcome # "ok"
                   THEN [NoFb EXCEPT !.status = outcome, !.kind = "FullBatchSequence"]
                   ELSE [NoFb EXCEPT !.status = "ok", !.kind = "FullBatchSequence",
                                     !.use_sparse = FALSE, !.features = features,
                                     !.target_indices = target_indices,
                                     !.inputs = <<features, target_indices, A_dense>>,
                                     !.targets = FullBatch_targets(targets)]
          /\ ret' = [NoRet EXCEPT !.op = "init", !.outcome = outcome]
    /\ UNCHANGED <<seq, odl, walker, gs, cns>>

\* SparseFullBatchSequence.__init__
SparseFullBatchSequence_init(n, A_form, targets, indices) ==
    /\ fb.status = "absent"
    /\ LET outcome == IF FullBatch_length_check(targets, indices) # "ok"
                      THEN FullBatch_length_check(targets, indices)
                      ELSE IF A_form = "sparse" THEN "ok"
                      ELSE "ValueError"
           A_indices == coo_indices(PathAdjacency(n))
           A_values == coo_values(PathAdjacency(n))
           target_indices == full_batch_array_and_reshape(indices)
           features == full_batch_array_and_reshape(FbFeatures(n))
       IN /\ fb' = IF outcome # "ok"
                   THEN [NoFb EXCEPT !.status = outcome,
                                     !.kind = "SparseFullBatchSequence"]
                   ELSE [NoFb EXCEPT !.status = "ok", !.kind = "SparseFullBatchSequence",
                                     !.use_sparse = TRUE, !.features = features,
                                     !.target_indices = target_indices,
                                     !.inputs = <<features, target_indices,
                                                  A_indices, A_values>>,
                                     !.targets = FullBatch_targets(targets)]
          /\ ret' = [NoRet EXCEPT !.op = "init", !.outcome = outcome]
    /\ UNCHANGED <<seq, odl, walker, gs, cns>>

\* RelationalFullBatchNodeSequence.__init__; As holds R copies of the adjacency
RelationalFullBatchNodeSequence_init(n, R, use_sparse, targets, indices) ==
    /\ fb.status = "absent"
    /\ LET outcome == FullBatch_length_check(targets, indices)
           A_indices == [k \in 1..R |-> coo_indices(PathAdjacency(n))]
           A_values == [k \in 1..R |-> coo_values(PathAdjacency(n))]
           As == IF use_sparse THEN A_indices \o A_values
                 ELSE [k \in 1..R |-> <<sparse_toarray(PathAdjacency(n))>>]
           target_indices == full_batch_array_and_reshape(indices)
           features == full_batch_array_and_reshape(FbFeatures(n))
       IN /\ fb' = IF outcome # "ok"
                   THEN [NoFb EXCEPT !.status = outcome,
                                     !.kind = "RelationalFullBatchNodeSequence"]
                   ELSE [NoFb EXCEPT !.status = "ok",
                                     !.kind = "RelationalFullBatchNodeSequence",
                                     !.use_sparse = use_sparse, !.features = features,
                                     !.target_indices = target_indices,
                                     !.inputs = <<features, target_indices>> \o As,
                                     !.targets = FullBatch_targets(targets)]
          /\ ret' = [NoRet EXCEPT !.op = "init", !.outcome = outcome]
    /\ UNCHANGED <<seq, odl, walker, gs, cns>>

\* __len__ of the three full-batch classes
FullBatch_len(self) == 1

\* __getitem__ of the three full-batch classes: no check of the index
FullBatch_getitem(self, index) ==
    [NoRet EXCEPT !.op = "getitem", !.batch_num = index, !.outcome = "ok",
                  !.feats = self.inputs, !.targets = self.targets]

\* a caller asks the full-batch packer for batch index
FbGetItem(index) ==
    /\ fb.status = "ok"
    /\ ret' = [FullBatch_getitem(fb, index) EXCEPT !.length = FullBatch_len(fb)]
    /\ UNCHANGED <<seq, odl, walker, gs, fb, cns>>

----------------------------------------------------------------------------
(* CorruptedNodeSequence *)

\* An instance: base (the class of base_generator; the object itself is seq[1],
\* odl, gs or fb) and targets
NoCns == [status |-> "absent", base |-> "none", targets |-> << >>]

Classes == {"NodeSequence", "LinkSequence", "OnDemandLinkSequence", "FullBatchSequence",
            "SparseFullBatchSequence", "RelationalFullBatchNodeSequence",
            "GraphSequence"}

\* the class of the one object constructed so far, or "none"
BaseClass ==
    IF seq[1].status = "ok" THEN seq[1].kind
    ELSE IF odl.status = "ok" THEN "OnDemandLinkSequence"
    ELSE IF gs.status = "ok" THEN "GraphSequence"
    ELSE IF fb.status = "ok" THEN fb.kind
    ELSE "none"

NothingConstructed ==
    /\ \A s \in Insts : seq[s].status = "absent"
    /\ odl.status = "absent"
    /\ gs.status = "absent"
    /\ fb.status = "absent"

\* np.zeros((rows, 2)) with column 0 set to 1.0
RealLabels(rows) == [k \in 1..rows |-> <<1, 0>>]

\* a constructor that takes LinkSequence for a per-entity source too
CorruptedNodeSequence_targets_with_links(base) ==
    IF base \in {"FullBatchSequence", "SparseFullBatchSequence"}
    THEN [outcome |-> "ok", targets |-> <<RealLabels(Len(fb.target_indices))>>]
    ELSE IF base \in {"NodeSequence", "LinkSequence"}
    THEN [outcome |-> "ok", targets |-> RealLabels(seq[1].batch_size)]
    ELSE [outcome |-> "TypeError", targets |-> << >>]

\* the isinstance tests of CorruptedNodeSequence.__init__ and the targets built
CorruptedNodeSequence_targets(base) ==
    IF base \in {"FullBatchSequence", "SparseFullBatchSequence"}
    THEN [outcome |-> "ok", targets |-> <<RealLabels(Len(fb.target_indices))>>]
    ELSE IF base = "NodeSequence"
    THEN [outcome |-> "ok", targets |-> RealLabels(seq[1].batch_size)]
    ELSE [outcome |-> "TypeError", targets |-> << >>]

\* CorruptedNodeSequence.__init__(base_generator), base_generator being the
\* object constructed before
CorruptedNodeSequence_init ==
    /\ cns.status = "absent"
    /\ BaseClass # "none"
    /\ LET made == CorruptedNodeSequence_targets(BaseClass)
       IN /\ cns' = IF made.outcome = "ok"
                    THEN [status |-> "ok", base |-> BaseClass, targets |-> made.targets]
                    ELSE [NoCns EXCEPT !.status = made.outcome, !.base = BaseClass]
          /\ ret' = [NoRet EXCEPT !.op = "init", !.outcome = made.outcome]
    /\ UNCHANGED <<seq, odl, walker, gs, fb>>

\* CorruptedNodeSequence.__len__
CorruptedNodeSequence_len ==
    IF cns.base = "NodeSequence" THEN NodeSequence_len(seq[1]) ELSE FullBatch_len(fb)

\* x[perm] for a list x and a permutation of its 0-based positions
Permute(x, perm) == [k \in 1..Len(x) |-> x[perm[k] + 1]]

\* the concatenation of a list of lists
RECURSIVE Flatten(_)
Flatten(xs) == IF xs = << >> THEN << >> ELSE Head(xs) \o Flatten(Tail(xs))

\* np.cumsum of the first h entries of a list of numbers
RECURSIVE CumSum(_, _)
CumSum(xs, h) == IF h = 0 THEN 0 ELSE xs[h] + CumSum(xs, h - 1)

\* the full-batch branch of CorruptedNodeSequence.__getitem__: features[:, idxs, :]
\* put before the inputs
Corrupted_full_batch(inputs, shuffled_idxs) ==
    LET features == inputs[1]
        shuffled_feats == [b \in 1..Len(features) |-> Permute(features[b], shuffled_idxs)]
    IN <<shuffled_feats>> \o inputs

\* a corruption that draws every row anew from the first row's position
Corrupted_per_entity_overwriting(features, shuffled_idxs) ==
    LET sizes == [h \in 1..Len(features) |-> Len(features[h][1])]
        stacked_feats == [b \in 1..Len(features[1]) |->
                            Flatten([h \in 1..Len(features) |-> features[h][b]])]
        flat == Flatten(stacked_feats)
        width == Len(stacked_feats[1])
        shuffled == [k \in 1..Len(flat) |-> flat[shuffled_idxs[1] + 1]]
        reshaped == [b \in 1..Len(stacked_feats) |->
                       SubSeq(shuffled, (b - 1) * width + 1, b * width)]
        split == [h \in 1..Len(features) |->
                    [b \in 1..Len(reshaped) |->
                        SubSeq(reshaped[b], CumSum(sizes, h - 1) + 1, CumSum(sizes, h))]]
    IN split \o features

\* the per-entity branch of CorruptedNodeSequence.__getitem__: concatenate the
\* per-hop tensors along axis 1, reshape to rows, permute the rows, reshape back,
\* split at the cumulative hop sizes, and put the result before the originals
Corrupted_per_entity(features, shuffled_idxs) ==
    LET sizes == [h \in 1..Len(features) |-> Len(features[h][1])]
        stacked_feats == [b \in 1..Len(features[1]) |->
                            Flatten([h \in 1..Len(features) |-> features[h][b]])]
        flat == Flatten(stacked_feats)
        width == Len(stacked_feats[1])
        shuffled == Permute(flat, shuffled_idxs)
        reshaped == [b \in 1..Len(stacked_feats) |->
                       SubSeq(shuffled, (b - 1) * width + 1, b * width)]
        split == [h \in 1..Len(features) |->
                    [b \in 1..Len(reshaped) |->
                        SubSeq(reshaped[b], CumSum(sizes, h - 1) + 1, CumSum(sizes, h))]]
    IN split \o features

\* the number of rows the per-entity branch permutes
StackedRows(features) ==
    Len(features[1]) * CumSum([h \in 1..Len(features) |-> Len(features[h][1])],
                              Len(features))

\* the whole target array, however many head nodes the batch has
Corrupted_per_entity_targets_unsliced(targets, features) == targets

\* self.targets[: stacked_feats.shape[0], :] of the per-entity branch: axis 0 of
\* the concatenated tensor is the head nodes of the batch
Corrupted_per_entity_targets(targets, features) ==
    Slice(targets, 0, Len(features[1]))

\* CorruptedNodeSequence.__getitem__(index); np.random.permutation draws from the
\* unseeded process-wide generator
CorruptedNodeSequence_getitem(index) ==
    /\ cns.status = "ok"
    /\ IF cns.base \in {"FullBatchSequence", "SparseFullBatchSequence"}
       THEN LET inner == FullBatch_getitem(fb, index)
            IN /\ \E shuffled_idxs \in ShuffledIndexes(Len(inner.feats[1][1])) :
                    ret' = [NoRet EXCEPT
                              !.op = "corrupted", !.batch_num = index, !.outcome = "ok",
                              !.length = CorruptedNodeSequence_len,
                              !.feats = Corrupted_full_batch(inner.feats, shuffled_idxs),
                              !.targets = Some(cns.targets),
                              !.inner = inner.feats]
               /\ seq' = seq
       ELSE LET inner == NodeSequence_getitem(seq[1], index)
            IN IF inner.outcome # "ok"
               THEN /\ ret' = [NoRet EXCEPT !.op = "corrupted", !.batch_num = index,
                                            !.outcome = inner.outcome,
                                            !.length = CorruptedNodeSequence_len]
                    /\ seq' = seq
               ELSE /\ \E shuffled_idxs \in ShuffledIndexes(StackedRows(inner.feats)) :
                         ret' = [NoRet EXCEPT
                                   !.op = "corrupted", !.batch_num = index,
                                   !.outcome = "ok",
                                   !.length = CorruptedNodeSequence_len,
                                   !.calls = inner.calls,
                                   !.feats = Corrupted_per_entity(inner.feats,
                                                                  shuffled_idxs),
                                   !.targets = Some(Corrupted_per_entity_targets(
                                                       cns.targets, inner.feats)),
                                   !.inner = inner.feats]
                    /\ seq' = [seq EXCEPT ![1].sampled = TRUE]
    /\ UNCHANGED <<odl, walker, gs, fb, cns>>

----------------------------------------------------------------------------
(* Initial state: nothing constructed yet *)


Init ==
    /\ seq = [s \in Insts |-> NoSeq]
    /\ odl = NoOdl
    /\ walker = NoWalker
    /\ gs = NoGs
    /\ fb = NoFb
    /\ cns = NoCns
    /\ ret = NoRet

----------------------------------------------------------------------------
(* One per-entity batcher driven by one caller *)

SeqConstructNode ==
    \E sf \in {NotCallable, Sampler(HopSizes)}, batch_size \in BatchSizes,
       ids \in IdArgs("NodeSequence"), targets \in TargetArgs, shuffle \in BOOLEAN,
       seed \in Seeds :
        NodeSequence_init(1, sf, batch_size, ids, targets, shuffle, seed)

SeqConstructLink ==
    \E sf \in {NotCallable, Sampler(HopSizes)}, batch_size \in BatchSizes,
       ids \in IdArgs("LinkSequence"), targets \in TargetArgs, shuffle \in BOOLEAN,
       seed \in Seeds :
        LinkSequence_init(1, sf, batch_size, ids, targets, shuffle, seed)

SeqBatch == \E batch_num \in 0..(Seq_len(seq[1]) + 1) : SeqGetItem(1, batch_num)

SeqEpochEnd == SeqOnEpochEnd(1)

NextSeq == SeqConstructNode \/ SeqConstructLink \/ SeqBatch \/ SeqEpochEnd

SpecSeq == Init /\ [][NextSeq]_vars

----------------------------------------------------------------------------
(* One OnDemandLinkSequence driven by one caller *)

OdlConstruct ==
    \E sf \in {NotCallable, Sampler(HopSizes)}, is_sampler \in BOOLEAN,
       batch_size \in BatchSizes, shuffle \in BOOLEAN, nb \in 0..MaxBatches :
        OnDemandLinkSequence_init(sf, is_sampler, batch_size, shuffle, nb)

OdlBatch == \E batch_num \in 0..(MaxBatches + 1) : OdlGetItem(batch_num)

OdlEpochEnd == \E nb \in 0..MaxBatches : OnDemandLinkSequence_on_epoch_end(nb)

NextOdl == OdlConstruct \/ OdlBatch \/ OdlEpochEnd

SpecOdl == Init /\ [][NextOdl]_vars

----------------------------------------------------------------------------
(* One GraphSequence driven by one caller *)

GsConstruct ==
    \E graphs \in GraphLists, targets_present \in BOOLEAN, extra \in 0..1,
       normalize \in BOOLEAN, batch_size \in BatchSizes :
        GraphSequence_init(graphs, targets_present, Len(graphs) + extra, normalize,
                           batch_size)

GsBatch == \E index \in 0..GraphSequence_len(gs) : GsGetItem(index)

GsEpochEnd == GraphSequence_on_epoch_end

NextGs == GsConstruct \/ GsBatch \/ GsEpochEnd

SpecGs == Init /\ [][NextGs]_vars

----------------------------------------------------------------------------
(* One source of any class, wrapped in a CorruptedNodeSequence *)

\* the sampling functions and batch sizes whose batches hold at most MaxRows
\* feature rows
CorruptSources ==
    {x \in [hops : {<<1, 1>>, HopSizes}, batch_size : BatchSizes] :
        x.batch_size * CumSum(x.hops, Len(x.hops)) <= MaxRows}

FbArgs(n) ==
    {[targets |-> [present |-> FALSE, val |-> << >>],
      indices |-> [present |-> FALSE, val |-> << >>]],
     [targets |-> [present |-> FALSE, val |-> << >>], indices |-> FbIndices(n)],
     [targets |-> FbTargets(n), indices |-> FbIndices(n)],
     [targets |-> FbTargets(n + 1), indices |-> FbIndices(n)],
     [targets |-> FbTargets(n), indices |-> [present |-> FALSE, val |-> << >>]]}

CnsSourceNode ==
    /\ NothingConstructed
    /\ \E x \in CorruptSources, n \in 0..MaxN, shuffle \in BOOLEAN :
         NodeSequence_init(1, Sampler(x.hops), x.batch_size,
                           [iterable |-> TRUE, val |-> NodeIds(n)],
                           [present |-> FALSE, iterable |-> FALSE, val |-> << >>],
                           shuffle, 1)

CnsSourceLink ==
    /\ NothingConstructed
    /\ \E x \in CorruptSources, n \in 0..MaxN, shuffle \in BOOLEAN :
         LinkSequence_init(1, Sampler(x.hops), x.batch_size,
                           [iterable |-> TRUE, val |-> LinkIds(n)],
                           [present |-> FALSE, iterable |-> FALSE, val |-> << >>],
                           shuffle, 1)

CnsSourceOnDemand ==
    /\ NothingConstructed
    /\ \E shuffle \in BOOLEAN : OnDemandLinkSequence_init(Sampler(HopSizes), TRUE, 1, shuffle, 1)

CnsSourceGraph ==
    /\ NothingConstructed
    /\ \E graphs \in {g \in GraphLists : Len(g) = 1} :
         GraphSequence_init(graphs, FALSE, 0, TRUE, 1)

CnsSourceFullBatch ==
    /\ NothingConstructed
    /\ \E n \in 1..MaxN, A_form \in {"sparse", "dense", "other"} : \E a \in FbArgs(n) :
         FullBatchSequence_init(n, A_form, a.targets, a.indices)

CnsSourceSparseFullBatch ==
    /\ NothingConstructed
    /\ \E n \in 1..MaxN, A_form \in {"sparse", "dense", "other"} : \E a \in FbArgs(n) :
         SparseFullBatchSequence_init(n, A_form, a.targets, a.indices)

CnsSourceRelational ==
    /\ NothingConstructed
    /\ \E n \in 1..MaxN, R \in 1..2, use_sparse \in BOOLEAN : \E a \in FbArgs(n) :
         RelationalFullBatchNodeSequence_init(n, R, use_sparse, a.targets, a.indices)

CnsConstruct == CorruptedNodeSequence_init

CnsBatch == \E index \in 0..(CorruptedNodeSequence_len + 1) :
                CorruptedNodeSequence_getitem(index)

\* the caller ends an epoch on the wrapped NodeSequence
CnsSourceEpochEnd == BaseClass = "NodeSequence" /\ SeqOnEpochEnd(1)

\* the caller asks the wrapped full-batch packer itself for a batch
CnsSourceBatch == \E index \in 0..1 : FbGetItem(index)

NextCns ==
    \/ CnsSourceNode \/ CnsSourceLink \/ CnsSourceOnDemand \/ CnsSourceGraph
    \/ CnsSourceFullBatch \/ CnsSourceSparseFullBatch \/ CnsSourceRelational
    \/ CnsConstruct \/ CnsBatch \/ CnsSourceEpochEnd \/ CnsSourceBatch

SpecCns == Init /\ [][NextCns]_vars

----------------------------------------------------------------------------
(* Two per-entity batchers of the same class, built from the same           *)
(* identifiers, targets, batch size and shuffle flag, each with a seed      *)
(* of its own, and driven independently                                    *)

PairConstructSecond ==
    /\ seq[1].status = "ok"
    /\ LET a == seq[1].args
       IN \E seed \in Seeds :
            IF seq[1].kind = "NodeSequence"
            THEN NodeSequence_init(2, a.sample_function, a.batch_size, a.ids, a.targets,
                                   a.shuffle, seed)
            ELSE LinkSequence_init(2, a.sample_function, a.batch_size, a.ids, a.targets,
                                   a.shuffle, seed)

PairBatch ==
    \E s \in Insts : \E batch_num \in 0..Seq_len(seq[s]) : SeqGetItem(s, batch_num)

PairEpochEnd == \E s \in Insts : SeqOnEpochEnd(s)

NextPair ==
    SeqConstructNode \/ SeqConstructLink \/ PairConstructSecond \/ PairBatch \/ PairEpochEnd

SpecPair == Init /\ [][NextPair]_vars

----------------------------------------------------------------------------
(* Claims about NodeSequence and LinkSequence *)

\* the identifiers batch(i) selects, for an in-range i
HeadIds(self, i) == Seq_getitem(self, i).calls[1].ids

\* how often identifier position k (0-based) is selected by batch(0..length-1)
TimesSelected(self, k) ==
    Cardinality({<<i, p>> \in (0..(Seq_len(self) - 1)) \X (1..self.batch_size) :
                    /\ p <= Len(HeadIds(self, i))
                    /\ HeadIds(self, i)[p] = self.ids[k + 1]})

\* C1: for a constructed NodeSequence or LinkSequence, after any number of
\* on_epoch_end() calls, length() is ceil(N / batch_size) (the least L with
\* L * batch_size >= N), every batch(0) .. batch(length()-1) is served, and
\* together they select every identifier position exactly once.
C1_LengthAndCoverage ==
    \A s \in Insts :
        seq[s].status = "ok" =>
            LET self == seq[s]
                L == Seq_len(self)
            IN /\ L >= 0
               /\ L * self.batch_size >= self.data_size
               /\ (L - 1) * self.batch_size < self.data_size
               /\ \A i \in 0..(L - 1) :
                    /\ Seq_getitem(self, i).outcome = "ok"
                    /\ Len(HeadIds(self, i)) >= 1
               /\ \A k \in 0..(self.data_size - 1) : TimesSelected(self, k) = 1

\* C1 witness: a shuffled batcher whose size is no multiple of its batch size has
\* ended an epoch with a permutation that is not the identity, and has just served
\* its last, short batch
C1_Witness ==
    /\ ret.op = "getitem"
    /\ ret.outcome = "ok"
    /\ ret.inst = 1
    /\ seq[1].epochs >= 1
    /\ seq[1].shuffle
    /\ seq[1].data_size % seq[1].batch_size # 0
    /\ seq[1].indices # RangeList(seq[1].data_size)
    /\ ret.batch_num = Seq_len(seq[1]) - 1
    /\ ret.batch_num >= 1
    /\ Len(ret.calls[1].ids) < seq[1].batch_size

\* C3: two instances built with the same seed and the same other arguments that
\* have seen the same number of on_epoch_end() calls hold the same permutation,
\* and batch(i) gives the same outcome on both for every i.
C3_SameSeedSameOrder ==
    (/\ seq[1].status = "ok"
     /\ seq[2].status = "ok"
     /\ seq[1].args = seq[2].args
     /\ seq[1].epochs = seq[2].epochs)
        => /\ seq[1].indices = seq[2].indices
           /\ \A i \in 0..Seq_len(seq[1]) :
                Seq_getitem(seq[1], i) = Seq_getitem(seq[2], i)

\* C3 witness: both instances shuffle with the same seed, have ended two epochs
\* each, and hold a permutation that differs from the identity
C3_Witness ==
    /\ seq[1].status = "ok"
    /\ seq[2].status = "ok"
    /\ seq[1].args = seq[2].args
    /\ seq[1].shuffle
    /\ seq[1].epochs = 2
    /\ seq[2].epochs = 2
    /\ seq[1].data_size >= 3
    /\ seq[1].indices # RangeList(seq[1].data_size)
    /\ seq[2].indices = seq[1].indices

\* the constructor was given an identifier list and a target array of another length
MismatchedArgs(a) ==
    /\ a.ids.iterable
    /\ a.targets.present
    /\ a.targets.iterable
    /\ Len(a.ids.val) # Len(a.targets.val)

\* C4: a constructor given targets whose length differs from that of the
\* identifiers raises ValueError: no object exists, the sampling function was
\* never called, and no call was ever made on the instance.
C4_MismatchRejected ==
    \A s \in Insts :
        (seq[s].status # "absent" /\ MismatchedArgs(seq[s].args)) =>
            /\ seq[s].status = "ValueError"
            /\ ~seq[s].sampled
            /\ seq[s].indices = << >>
            /\ seq[s].ids = << >>
            /\ seq[s].epochs = 0
            /\ (ret.inst = s => ret.op = "init" /\ ret.outcome = "ValueError"
                                /\ ret.calls = << >>)

\* C4 witness: a LinkSequence constructor with a callable sampling function was
\* given 3 identifiers and 2 targets, and raised
C4_Witness ==
    /\ seq[1].kind = "LinkSequence"
    /\ seq[1].status = "ValueError"
    /\ seq[1].args.sample_function.callable
    /\ Len(seq[1].args.ids.val) = 3
    /\ Len(seq[1].args.targets.val) = 2
    /\ ret.op = "init"

----------------------------------------------------------------------------
(* Claims about OnDemandLinkSequence *)

\* a served batch(i) comes from the i-th pair of the sampler's latest run
ServedFromLatestRun ==
    (ret.op = "getitem" /\ ret.outcome = "ok") =>
        /\ ret.batch_num < Len(walker.last)
        /\ ret.calls = <<[ids |-> walker.last[ret.batch_num + 1].ids,
                          batch_num |-> ret.batch_num]>>
        /\ ret.targets = Some(walker.last[ret.batch_num + 1].targets)

\* C8 as stated: the sampler is run once by the constructor and once more by
\* every on_epoch_end(), whatever the shuffle flag, and the batches served are
\* those of the latest run.
C8_RunsEveryEpochEnd ==
    /\ odl.status = "ok" => /\ walker.runs = 1 + odl.epochs
                            /\ odl.batches = walker.last
    /\ odl.status = "ok" => ServedFromLatestRun

\* C8 as amended: the sampler is run once by the constructor and once more by
\* every on_epoch_end() when shuffle is set; with shuffle off on_epoch_end() runs
\* nothing and the constructor's batches stay. The batches held, and those
\* served, are always those of the sampler's latest run. A constructor that
\* raised never ran the sampler.
C8_RunsWhenShuffling ==
    /\ odl.status = "ok" =>
          /\ walker.runs = 1 + (IF odl.shuffle THEN odl.epochs ELSE 0)
          /\ odl.batches = walker.last
          /\ ServedFromLatestRun
    /\ odl.status # "ok" => walker.runs = 0

\* C8 witness: with shuffle off, two epochs have ended, the sampler has run once
\* only, and a batch of that first run has just been served
C8_Witness ==
    /\ odl.status = "ok"
    /\ ~odl.shuffle
    /\ odl.epochs = 2
    /\ walker.runs = 1
    /\ ret.op = "getitem"
    /\ ret.outcome = "ok"
    /\ ret.batch_num = 1
    /\ ret.calls[1].ids[1][1] = 1

\* C9 as stated: length() is the number of batches currently held; batch(i)
\* raises IndexError when i is at or beyond that number, and otherwise returns
\* (sample_function(ids_i, i), targets_i) for the i-th pair currently held.
C9_BatchMatchesCurrentBatches ==
    odl.status = "ok" =>
        /\ OnDemandLinkSequence_len(odl) = Len(odl.batches)
        /\ \A i \in 0..(MaxBatches + 1) :
             LET r == OnDemandLinkSequence_getitem(odl, i)
             IN IF i >= Len(odl.batches)
                THEN r.outcome = "IndexError" /\ r.calls = << >>
                ELSE /\ r.outcome = "ok"
                     /\ r.feats = sample_function(odl.sample_function, odl.batches[i + 1].ids, i)
                     /\ r.calls = <<[ids |-> odl.batches[i + 1].ids, batch_num |-> i]>>
                     /\ r.targets = Some(odl.batches[i + 1].targets)

----------------------------------------------------------------------------
(* Claims about GraphSequence *)

\* the adjacency the constructor caches for a graph, as a dense n x n array
CachedAdjacency(graph) == sparse_toarray(normalize_adj(to_adjacency_matrix(graph)))

\* the graphs of the batch the latest call asked for
BatchGraphs ==
    Slice(gs.graphs, ret.batch_num * gs.batch_size, (ret.batch_num + 1) * gs.batch_size)

\* C5: every in-range batch(i) of a GraphSequence is served, and for its graphs
\* S: max_nodes is the largest node count in S; the mask has shape
\* (|S|, max_nodes) and the row of graph g is true exactly below node_count(g);
\* features and adjacency of g equal g's own features and cached adjacency below
\* node_count(g) and are zero from there on.
C5_PaddedBatch ==
    (gs.status = "ok" /\ ret.op = "getitem"
        /\ ret.batch_num * gs.batch_size < Len(gs.graphs)) =>
        /\ ret.outcome = "ok"
        /\ LET S == BatchGraphs
               features == ret.feats[1]
               masks == ret.feats[2]
               adj_graphs == ret.feats[3]
               max_nodes == Len(masks[1])
           IN /\ Len(S) >= 1
              /\ \A g \in 1..Len(S) : S[g].n <= max_nodes
              /\ \E g \in 1..Len(S) : S[g].n = max_nodes
              /\ Len(masks) = Len(S) /\ Len(features) = Len(S) /\ Len(adj_graphs) = Len(S)
              /\ \A g \in 1..Len(S) :
                   /\ Len(masks[g]) = max_nodes
                   /\ Len(features[g]) = max_nodes
                   /\ Len(adj_graphs[g]) = max_nodes
                   /\ \A k \in 1..max_nodes :
                        /\ masks[g][k] = (k <= S[g].n)
                        /\ features[g][k] = IF k <= S[g].n
                                            THEN node_features(S[g])[k]
                                            ELSE <<0, 0>>
                        /\ Len(adj_graphs[g][k]) = max_nodes
                        /\ \A c \in 1..max_nodes :
                             adj_graphs[g][k][c] =
                                IF k <= S[g].n /\ c <= S[g].n
                                THEN CachedAdjacency(S[g])[k][c]
                                ELSE 0

\* C5 witness: the graphs were given with 1, 2 and 3 nodes and shuffled; batch(0)
\* with batch_size 3 serves graphs of 2, 3 and 1 nodes: max_nodes is 3, the mask
\* of the 1-node graph is T, F, F and its adjacency is all zero
C5_Witness ==
    /\ gs.status = "ok"
    /\ gs.batch_size = 3
    /\ ret.op = "getitem"
    /\ ret.outcome = "ok"
    /\ ret.batch_num = 0
    /\ Len(gs.graphs) = 3
    /\ [k \in 1..3 |-> gs.graphs[k].n] = <<2, 3, 1>>
    /\ ret.feats[2][3] = <<TRUE, FALSE, FALSE>>
    /\ ret.feats[3][1][1][2] # 0
    /\ ret.feats[3][3] = <<<<0, 0, 0>>, <<0, 0, 0>>, <<0, 0, 0>>>>

\* C10: graphs, cached adjacencies and targets of a GraphSequence stay
\* co-indexed: the adjacency cached at k holds the entries of the adjacency of
\* the graph at k (padded with zeros only), the target at k is the one supplied
\* for that graph, and the graph order is a permutation of the graphs given.
C10_CoIndexed ==
    gs.status = "ok" =>
        /\ Len(gs.adjs) = Len(gs.graphs)
        /\ Len(gs.graphs) = Len(gs.given)
        /\ \A id \in 1..Len(gs.given) :
             Cardinality({k \in 1..Len(gs.graphs) : gs.graphs[k] = gs.given[id]}) = 1
        /\ \A k \in 1..Len(gs.graphs) :
             /\ gs.adjs[k].entries =
                   normalize_adj(to_adjacency_matrix(gs.graphs[k])).entries
             /\ gs.adjs[k].shape >= gs.graphs[k].n
        /\ gs.targets.present =>
             /\ Len(gs.targets.val) = Len(gs.graphs)
             /\ \A k \in 1..Len(gs.graphs) :
                  gs.targets.val[k] = GraphTarget(gs.graphs[k].id)

\* C10 witness: three graphs with targets, now in an order other than the one
\* given, after a batch was served and an epoch ended
C10_Witness ==
    /\ gs.status = "ok"
    /\ gs.targets.present
    /\ Len(gs.graphs) = 3
    /\ gs.graphs # gs.given
    /\ gs.given[1].n < gs.given[3].n
    /\ ret.op = "on_epoch_end"
    /\ \E k \in 1..3 : gs.adjs[k].shape > gs.graphs[k].n

----------------------------------------------------------------------------
(* Claim about every batcher with more than one batch *)

\* C2 as stated: batch(length()) raises IndexError and returns no batch, on
\* NodeSequence, LinkSequence, OnDemandLinkSequence and GraphSequence.
C2_BatchAtLengthRaisesIndexError ==
    (ret.op = "getitem" /\ ret.batch_num = ret.length) =>
        /\ ret.outcome = "IndexError"
        /\ ret.calls = << >>
        /\ ret.feats = << >>
        /\ ret.targets = None

----------------------------------------------------------------------------
(* Claims about CorruptedNodeSequence *)

\* C7 as stated: the constructor succeeds on the three full-batch packers and on
\* NodeSequence and LinkSequence, and raises TypeError on every other source.
C7_AcceptsPackersAndPerEntity ==
    cns.status # "absent" =>
        IF cns.base \in {"FullBatchSequence", "SparseFullBatchSequence",
                         "RelationalFullBatchNodeSequence", "NodeSequence",
                         "LinkSequence"}
        THEN cns.status = "ok"
        ELSE cns.status = "TypeError"

\* C7 as amended: the constructor succeeds when the source is a
\* FullBatchSequence, a SparseFullBatchSequence or a NodeSequence, and raises
\* TypeError on every other source, RelationalFullBatchNodeSequence and
\* LinkSequence included.
C7_AcceptsThreeClasses ==
    cns.status # "absent" =>
        /\ cns.base \in Classes
        /\ IF cns.base \in {"FullBatchSequence", "SparseFullBatchSequence",
                            "NodeSequence"}
           THEN cns.status = "ok"
           ELSE cns.status = "TypeError" /\ cns.targets = << >>

\* C7 witness: a LinkSequence was constructed and the wrapper's constructor,
\* given it, raised TypeError
C7_Witness ==
    /\ seq[1].status = "ok"
    /\ seq[1].kind = "LinkSequence"
    /\ cns.base = "LinkSequence"
    /\ cns.status = "TypeError"
    /\ ret.op = "init"
    /\ ret.outcome = "TypeError"

\* all feature rows of a list of tensors, each tensor a list of lists of rows
AllRows(tensors) == Flatten([h \in 1..Len(tensors) |-> Flatten(tensors[h])])

Count(xs, v) == Cardinality({k \in 1..Len(xs) : xs[k] = v})

SameMultiset(xs, ys) ==
    /\ Len(xs) = Len(ys)
    /\ \A v \in Range(xs) \cup Range(ys) : Count(xs, v) = Count(ys, v)

\* C6: a batch of a CorruptedNodeSequence holds the wrapped batch unchanged, and
\* before it a shuffled copy: for a full-batch source one tensor with the same
\* multiset of node feature rows as the wrapped feature tensor; for a NodeSequence
\* one tensor per hop, of the same shape as the original of that hop, all of them
\* together holding the same multiset of rows as the originals together.
C6_ShuffleIsPermutation ==
    (cns.status = "ok" /\ ret.op = "corrupted" /\ ret.outcome = "ok") =>
        IF cns.base \in {"FullBatchSequence", "SparseFullBatchSequence"}
        THEN /\ ret.inner = FullBatch_getitem(fb, ret.batch_num).feats
             /\ Len(ret.feats) = Len(ret.inner) + 1
             /\ SubSeq(ret.feats, 2, Len(ret.feats)) = ret.inner
             /\ Len(ret.feats[1]) = 1
             /\ SameMultiset(ret.feats[1][1], ret.inner[1][1])
        ELSE LET H == Len(ret.inner)
                 shuffled == SubSeq(ret.feats, 1, H)
             IN /\ ret.inner = NodeSequence_getitem(seq[1], ret.batch_num).feats
                /\ Len(ret.feats) = 2 * H
                /\ SubSeq(ret.feats, H + 1, 2 * H) = ret.inner
                /\ SameMultiset(AllRows(shuffled), AllRows(ret.inner))
                /\ \A h \in 1..H :
                     /\ Len(shuffled[h]) = Len(ret.inner[h])
                     /\ \A b \in 1..Len(shuffled[h]) :
                          /\ Len(shuffled[h][b]) = Len(ret.inner[h][b])
                          /\ \A j \in 1..Len(shuffled[h][b]) :
                               Len(shuffled[h][b][j]) = Len(ret.inner[h][b][j])

\* C6 witness: a NodeSequence batch of two head nodes was corrupted, and the first
\* head node's row of hop 1 now holds what was the second head node's row of hop 2
C6_Witness ==
    /\ cns.status = "ok"
    /\ cns.base = "NodeSequence"
    /\ ret.op = "corrupted"
    /\ ret.outcome = "ok"
    /\ Len(ret.inner[1]) = 2
    /\ ret.feats[1][1][1] = ret.inner[2][2][1]
    /\ ret.feats[1] # ret.inner[1]

----------------------------------------------------------------------------
(* C11: GraphSequence construction under both settings of normalize *)

\* the adjacency the constructor is to cache for a graph under a normalize setting
ExpectedAdjacency(graph, normalize) ==
    IF normalize THEN normalize_adj(to_adjacency_matrix(graph))
    ELSE to_adjacency_matrix(graph)

\* C11 as stated: a GraphSequence constructor given valid graphs (targets absent
\* or as many as the graphs) succeeds whether normalize is on or off and leaves
\* one cached adjacency per graph, the normalized one when normalize is on and
\* the raw one when it is off, co-indexed with the graphs.
C11_ConstructsForBothNormalize ==
    (ret.op = "init" /\ gs.status \notin {"absent", "ValueError"}) =>
        /\ gs.status = "ok"
        /\ Len(gs.adjs) = Len(gs.graphs)
        /\ Len(gs.graphs) = Len(gs.given)
        /\ \A k \in 1..Len(gs.graphs) :
              gs.adjs[k] = ExpectedAdjacency(gs.graphs[k], gs.normalize)

----------------------------------------------------------------------------
(* C12: what batch(i) of a NodeSequence or LinkSequence selects *)

\* the position (1-based) of identifier x in the list given to the constructor
PositionOf(x, ids) == CHOOSE k \in 1..Len(ids) : ids[k] = x

\* the permutation positions [i * batch_size, min((i + 1) * batch_size, N)), 1-based
BatchPositions(self, i) ==
    [k \in 1..(Min((i + 1) * self.batch_size, self.data_size) - i * self.batch_size)
        |-> i * self.batch_size + k]

\* C12: for a constructed NodeSequence or LinkSequence, after any number of
\* on_epoch_end() calls and for every i with i * batch_size < N, batch(i) calls
\* the sampling function exactly once, with the identifiers at the permutation
\* positions [i * batch_size, min((i + 1) * batch_size, N)) and with i, and
\* returns its payload; when targets were given, the k-th target row returned is
\* the one the caller supplied for the k-th selected identifier; with shuffle
\* off the permutation is the identity, so the identifiers are
\* ids[i * batch_size : (i + 1) * batch_size] in the order given.
C12_BatchSelectsPermutedSlice ==
    \A s \in Insts :
        seq[s].status = "ok" =>
            LET self == seq[s]
                given == self.args
            IN \A i \in 0..MaxN :
                 i * self.batch_size < self.data_size =>
                    LET r == Seq_getitem(self, i)
                        pos == BatchPositions(self, i)
                        selected == [k \in 1..Len(pos) |->
                                        given.ids.val[self.indices[pos[k]] + 1]]
                    IN /\ r.outcome = "ok"
                       /\ Len(r.calls) = 1
                       /\ r.calls[1] = [ids |-> selected, batch_num |-> i]
                       /\ r.feats = sample_function(given.sample_function, selected, i)
                       /\ r.targets.present = given.targets.present
                       /\ given.targets.present =>
                            /\ Len(r.targets.val) = Len(selected)
                            /\ \A k \in 1..Len(selected) :
                                  r.targets.val[k] =
                                    given.targets.val[PositionOf(selected[k], given.ids.val)]
                       /\ ~given.shuffle =>
                            /\ self.indices = RangeList(self.data_size)
                            /\ selected = Slice(given.ids.val, i * self.batch_size,
                                                (i + 1) * self.batch_size)

\* C12 witness: a LinkSequence with targets that shuffles has ended an epoch, its
\* permutation is not the identity, and it has just served batch 1, whose first
\* link is not the one at position batch_size of the list given
C12_Witness ==
    /\ ret.op = "getitem"
    /\ ret.outcome = "ok"
    /\ ret.inst = 1
    /\ ret.batch_num = 1
    /\ seq[1].kind = "LinkSequence"
    /\ seq[1].shuffle
    /\ seq[1].epochs >= 1
    /\ seq[1].targets.present
    /\ ret.targets.present
    /\ Len(ret.calls) = 1
    /\ ret.calls[1].ids[1] # seq[1].args.ids.val[seq[1].batch_size + 1]
    /\ ret.targets.val[1] # seq[1].args.targets.val[seq[1].batch_size + 1]

\* C12 witness for shuffle off: a NodeSequence that does not shuffle has ended an
\* epoch and has just served its last, short batch in the order given
C12_WitnessUnshuffled ==
    /\ ret.op = "getitem"
    /\ ret.outcome = "ok"
    /\ ret.inst = 1
    /\ ret.batch_num >= 1
    /\ seq[1].kind = "NodeSequence"
    /\ ~seq[1].shuffle
    /\ seq[1].epochs >= 1
    /\ Len(ret.calls[1].ids) < seq[1].batch_size
    /\ ret.calls[1].ids = Slice(seq[1].args.ids.val, ret.batch_num * seq[1].batch_size,
                                (ret.batch_num + 1) * seq[1].batch_size)

----------------------------------------------------------------------------
(* C13: batch(i) leaves the component as it was *)

\* the stored fields of the NodeSequence / LinkSequence instances (args, epochs
\* and sampled record the history of calls, they are no fields of the object)
StoredSeq ==
    [s \in Insts |->
        [status |-> seq[s].status, kind |-> seq[s].kind,
         sample_function |-> seq[s].sample_function, ids |-> seq[s].ids,
         targets |-> seq[s].targets, data_size |-> seq[s].data_size,
         shuffle |-> seq[s].shuffle, batch_size |-> seq[s].batch_size,
         rs |-> seq[s].rs, indices |-> seq[s].indices]]

\* a step in which some batch(i) call returned or failed
BatchCallStep == ret'.op \in {"getitem", "corrupted"}

\* C13 as stated: a batch(i) call, whether it returns or fails, changes no stored
\* field of any component: permutation, identifiers, targets and generator of a
\* NodeSequence or LinkSequence, the batches of an OnDemandLinkSequence, the
\* packed inputs of a full-batch packer, graph order, targets and cached
\* adjacency matrices (shapes included) of a GraphSequence, the targets of a
\* CorruptedNodeSequence and the stored inputs of its wrapped source.
C13_BatchChangesNoState ==
    [][BatchCallStep =>
          /\ StoredSeq' = StoredSeq
          /\ odl' = odl
          /\ gs' = gs
          /\ fb' = fb
          /\ cns' = cns]_vars

----------------------------------------------------------------------------
(* C14: the batches of a CorruptedNodeSequence over a NodeSequence *)

\* the shape of a list of per-hop tensors: for every hop, the number of head
\* nodes and the number of rows each head node has
HopShapes(tensors) ==
    [h \in 1..Len(tensors) |->
        [b \in 1..Len(tensors[h]) |-> Len(tensors[h][b])]]

\* a served batch of a CorruptedNodeSequence that wraps a NodeSequence
PerEntityBatchServed ==
    /\ cns.status = "ok"
    /\ cns.base = "NodeSequence"
    /\ ret.op = "corrupted"
    /\ ret.outcome = "ok"

\* the shuffled per-hop tensors followed by the original ones: 2 * H tensors, the
\* last H those of the wrapped batch, the first H of the same shapes
ShuffledThenOriginal ==
    LET H == Len(seq[1].sample_function.hops)
        original == sample_function(seq[1].sample_function, ret.calls[1].ids,
                                    ret.batch_num)
    IN /\ Len(ret.feats) = 2 * H
       /\ SubSeq(ret.feats, H + 1, 2 * H) = original
       /\ HopShapes(SubSeq(ret.feats, 1, H)) = HopShapes(original)

\* every in-range batch of the wrapper is served
InRangeServed ==
    (/\ cns.status = "ok"
     /\ cns.base = "NodeSequence"
     /\ ret.op = "corrupted"
     /\ ret.batch_num * seq[1].batch_size < seq[1].data_size) => ret.outcome = "ok"

\* C14 as stated: every in-range batch(i) of a CorruptedNodeSequence over a
\* NodeSequence returns the shuffled per-hop tensors followed by the original
\* ones, with targets of as many rows as the sum of the per-hop node-axis sizes
\* of the batch, every row (1, 0).
C14_TargetRowsAreStackedNodes ==
    /\ InRangeServed
    /\ PerEntityBatchServed =>
          /\ ShuffledThenOriginal
          /\ ret.targets.present
          /\ Len(ret.targets.val) =
                CumSum(seq[1].sample_function.hops, Len(seq[1].sample_function.hops))
          /\ \A k \in 1..Len(ret.targets.val) : ret.targets.val[k] = <<1, 0>>

\* C14 as amended: every in-range batch(i) of a CorruptedNodeSequence over a
\* NodeSequence returns the shuffled per-hop tensors followed by the original
\* ones, with targets of as many rows as the batch has head nodes (batch_size,
\* or N - i * batch_size for a short final batch), every row (1, 0), whatever
\* the hop sizes are.
C14_TargetRowsAreHeadNodes ==
    /\ InRangeServed
    /\ PerEntityBatchServed =>
          /\ ShuffledThenOriginal
          /\ ret.targets.present
          /\ Len(ret.targets.val) = Len(ret.calls[1].ids)
          /\ Len(ret.targets.val) =
                Min(seq[1].batch_size,
                    seq[1].data_size - ret.batch_num * seq[1].batch_size)
          /\ \A k \in 1..Len(ret.targets.val) : ret.targets.val[k] = <<1, 0>>

\* C14 witness: three nodes in batches of two; the wrapper has just served the
\* final batch, which has one head node and two stacked rows
C14_Witness ==
    /\ PerEntityBatchServed
    /\ seq[1].data_size = 3
    /\ seq[1].batch_size = 2
    /\ ret.batch_num = 1
    /\ Len(ret.calls[1].ids) = 1
    /\ Len(ret.targets.val) = 1
    /\ CumSum(seq[1].sample_function.hops, Len(seq[1].sample_function.hops)) = 2

\* C14 witness for hop sizes that differ from batch_size: hops of 1 and 2 rows
\* with batch_size 1
C14_WitnessHops ==
    /\ PerEntityBatchServed
    /\ seq[1].sample_function.hops = HopSizes
    /\ seq[1].batch_size = 1
    /\ Len(ret.targets.val) = 1

=========================================================================
